---- MODULE Spec2Model ----
(***************************************************************************)
(* A model of the LocalScribe backend: the runtime configuration store     *)
(* (app/config_manager.py), the clarity analysis (app/services/            *)
(* analysis.py), the model client (app/models/client.py) and the editing   *)
(* service (app/services/editing.py).  A Python str is a sequence of       *)
(* one-character strings, so that strip, rstrip and find are computed the  *)
(* way the interpreter computes them.                                      *)
(***************************************************************************)
EXTENDS Integers, Sequences, FiniteSets, TLC

VARIABLES
    file,       \* the durable record at self._path
    config,     \* ConfigManager._config
    lock,       \* ConfigManager._lock: 0 when free, else the holding thread
    pc,         \* pc[t]: where thread t stands in its current call
    op,         \* op[t]: the call thread t is making, with its arguments
    updated,    \* updated[t]: the local `updated` of update_runtime_config
    got,        \* got[t]: the RuntimeConfig a get_runtime_config is building
    ret,        \* ret[t]: what thread t's last call returned or raised
    hist,       \* hist[t]: the last completed update of t and the get after it
    completed,  \* the updates that returned normally, in return order
    versions,   \* every value config has held since construction
    config0,    \* the value of config right after construction
    written,    \* TRUE once this store has written the durable record
    started,    \* update calls started (counted in the concurrent runs)
    aText,      \* the text AnalysisService.analyze was called with
    aModel,     \* its model_config
    aResp,      \* what ModelClient.generate returned or raised
    aOut,       \* what analyze returned or raised
    svc,        \* svc[t]: the edit, analysis or model listing thread t serves
    gets,       \* what get_runtime_config returned since the last update call
    cli         \* the last ModelClient call: its config, input and outcome

storeVars == <<file, config, lock, pc, op, updated, got, ret, hist, completed,
               versions, config0, written, started>>
anaVars == <<aText, aModel, aResp, aOut>>
extVars == <<svc, gets, cli>>
vars == <<storeVars, anaVars, extVars>>

------------------------------------------------------------------------------
(* Bounds *)

\* longest tail of slashes and blanks appended to a base URL input
MaxTail == 2
\* threads that call the store concurrently
NumThreads == 2
\* update calls started in one concurrent run
MaxUpdates == 2

------------------------------------------------------------------------------
(* Python strings *)

Strs(A, n) == UNION {[1..k -> A] : k \in 0..n}

\* the whitespace characters the model's inputs contain
Whitespace == {" "}

RECURSIVE lstripSet(_, _)
lstripSet(s, chars) ==
    IF s = <<>> THEN s
    ELSE IF Head(s) \in chars THEN lstripSet(Tail(s), chars) ELSE s

RECURSIVE rstripSet(_, _)
rstripSet(s, chars) ==
    IF s = <<>> THEN s
    ELSE IF s[Len(s)] \in chars THEN rstripSet(SubSeq(s, 1, Len(s) - 1), chars)
    ELSE s

\* str.strip(): leading and trailing whitespace removed
strip(s) == rstripSet(lstripSet(s, Whitespace), Whitespace)

\* str.rstrip("/"): trailing slashes removed
rstrip(s, chars) == rstripSet(s, chars)

EndsWith(s, c) == s # <<>> /\ s[Len(s)] = c

------------------------------------------------------------------------------
(* app/config_manager.py *)

DEFAULT_RUNTIME_CONFIG ==
    [ollama_base_url |-> <<"h","t","t","p",":","/","/","1","0",".","8",".","1",
                           "4",".","1","6","9",":","1","1","4","3","4">>,
     grammar_model |-> <<"l","l","a","m","a","3",":","i","n","s","t","r","u",
                         "c","t">>,
     general_model |-> <<"q","w","e","n","2",":","7","b","-","i","n","s","t",
                         "r","u","c","t">>]

RuntimeConfig(u, g, n) ==
    [ollama_base_url |-> u, grammar_model |-> g, general_model |-> n]

\* the durable record: absent, a complete JSON object, or torn (truncated by
\* open("w") and not, or not wholly, rewritten)
NoData == RuntimeConfig(<<>>, <<>>, <<>>)
AbsentFile == [kind |-> "absent", data |-> NoData]
TornFile == [kind |-> "torn", data |-> NoData]
FullFile(d) == [kind |-> "full", data |-> d]

\* _load, lines 47-51: the RuntimeConfig built from the parsed record
LoadConfig(data) ==
    RuntimeConfig(rstrip(strip(data.ollama_base_url), {"/"}),
                  strip(data.grammar_model),
                  strip(data.general_model))

\* _load, lines 42-43: an absent record is first written with the defaults
LoadFile(f) == IF f.kind = "absent" THEN FullFile(DEFAULT_RUNTIME_CONFIG) ELSE f

\* an optional argument: None, or a str
None == [some |-> FALSE, val |-> <<>>]
Some(s) == [some |-> TRUE, val |-> s]

\* `x or cur`: None and "" are both falsy
OrElse(x, cur) == IF x.some /\ x.val # <<>> THEN x.val ELSE cur

\* a mutant of Merge: the base URL is trimmed but keeps its trailing slashes
MergeKeepingSlash(cur, a) ==
    RuntimeConfig(strip(OrElse(a.ollama_base_url, cur.ollama_base_url)),
                  strip(OrElse(a.grammar_model, cur.grammar_model)),
                  strip(OrElse(a.general_model, cur.general_model)))

\* update_runtime_config, lines 72-76: the merged RuntimeConfig
Merge(cur, a) ==
    RuntimeConfig(
        rstrip(strip(OrElse(a.ollama_base_url, cur.ollama_base_url)), {"/"}),
        strip(OrElse(a.grammar_model, cur.grammar_model)),
        strip(OrElse(a.general_model, cur.general_model)))

Args(u, g, n) == [ollama_base_url |-> u, grammar_model |-> g, general_model |-> n]
NoArgs == Args(None, None, None)

Threads == 1..NumThreads

NoHist == [op |-> "none", pre |-> NoData, args |-> NoArgs, ret |-> NoData]
NoRet == [kind |-> "none", value |-> NoData]
NoOp == [name |-> "none", args |-> NoArgs, key |-> "none"]

\* a mutant of LockFree: acquire never waits
LockNeverHeld == TRUE

\* threading.Lock: `with self._lock` enters only when no thread holds it
LockFree == lock = 0

\* a mutant of Release: the lock stays with the thread that took it
ReleaseNever == lock' = lock

\* leaving the `with self._lock` block, normally or by an exception
Release == lock' = 0

(* inputs *)

Opt(S) == {None} \cup {Some(s) : s \in S}

\* base URL inputs: empty, blank-padded, or a host followed by a tail of
\* slashes and blanks
UrlInputs ==
    {<<>>, <<" ", "h", " ">>} \cup {<<"h">> \o tail : tail \in Strs({"/", " "}, MaxTail)}
GrammarInputs == {<<>>, <<" ">>, <<" ", "m", " ">>}
GeneralInputs == {<<"g", " ">>}

\* the updates of the sequential runs: every subset of the three fields
StoreInputs ==
    {Args(u, g, n) : u \in Opt(UrlInputs), g \in Opt(GrammarInputs),
                     n \in Opt(GeneralInputs)}

\* the updates of the concurrent runs
ConcInputs ==
    {Args(Some(<<"h", "/">>), None, None),
     Args(None, Some(<<"m">>), None),
     Args(Some(<<"h", "2">>), None, Some(<<"g", " ">>))}

\* the records a store may find at its path: written by an earlier run or by
\* hand, the base URL with or without a trailing slash or padding, the model
\* identifiers not blank
InitRecords ==
    {RuntimeConfig(u, g, n) : u \in {<<"h">>, <<"h", "/">>, <<" ", "h", " ">>},
                              g \in {<<"m">>, <<" ", "m", " ">>},
                              n \in {<<"g">>}}

(* update_runtime_config, lines 64-89 *)

\* the call is made; the thread reaches `with self._lock`
update_call(t, inputs, counted) ==
    /\ pc[t] = "idle"
    /\ counted => started < MaxUpdates
    /\ \E a \in inputs : op' = [op EXCEPT ![t] = [name |-> "update", args |-> a, key |-> "none"]]
    /\ pc' = [pc EXCEPT ![t] = "u_wait"]
    /\ hist' = [hist EXCEPT ![t] =
                  IF hist[t].op \in {"failed", "failed_get"}
                  THEN [NoHist EXCEPT !.op = "retry"]
                  ELSE NoHist]
    /\ ret' = [ret EXCEPT ![t] = NoRet]
    /\ started' = IF counted THEN started + 1 ELSE started
    /\ UNCHANGED <<file, config, lock, updated, got, completed, versions, config0, written>>
    /\ UNCHANGED anaVars

\* lines 71-76: the lock is taken and `updated` is built from self._config
update_merge(t, counted) ==
    /\ pc[t] = "u_wait"
    /\ LockFree
    /\ lock' = t
    /\ updated' = [updated EXCEPT ![t] = Merge(config, op[t].args)]
    /\ hist' = [hist EXCEPT ![t] = IF counted THEN NoHist ELSE [hist[t] EXCEPT !.pre = config]]
    /\ pc' = [pc EXCEPT ![t] = "u_merged"]
    /\ UNCHANGED <<file, config, op, got, ret, completed, versions, config0, written, started>>
    /\ UNCHANGED anaVars

\* the history of an update that failed; none where no history is kept
Failed(h) ==
    IF h = NoHist THEN NoHist ELSE [NoHist EXCEPT !.op = "failed", !.pre = h.pre]

\* a mutant of Raise: self._config was assigned before the record was written
RaiseAfterAssign(t) ==
    /\ Release
    /\ pc' = [pc EXCEPT ![t] = "idle"]
    /\ ret' = [ret EXCEPT ![t] = [kind |-> "raised", value |-> NoData]]
    /\ hist' = [hist EXCEPT ![t] = Failed(hist[t])]
    /\ op' = [op EXCEPT ![t] = NoOp]
    /\ updated' = [updated EXCEPT ![t] = NoData]
    /\ config' = updated[t]
    /\ UNCHANGED <<got, completed, versions, config0, started>>

\* an exception leaves update_runtime_config: the lock is released, self._config
\* is not assigned
Raise(t) ==
    /\ Release
    /\ pc' = [pc EXCEPT ![t] = "idle"]
    /\ ret' = [ret EXCEPT ![t] = [kind |-> "raised", value |-> NoData]]
    /\ hist' = [hist EXCEPT ![t] = Failed(hist[t])]
    /\ op' = [op EXCEPT ![t] = NoOp]
    /\ updated' = [updated EXCEPT ![t] = NoData]
    /\ UNCHANGED <<config, got, completed, versions, config0, started>>

\* _write, line 54: write_text opens the path with mode "w", which truncates
\* the record, or fails to open it and leaves it as it was
write_open(t) ==
    /\ pc[t] = "u_merged"
    /\ \/ /\ file' = TornFile
          /\ written' = TRUE
          /\ pc' = [pc EXCEPT ![t] = "u_opened"]
          /\ UNCHANGED <<config, lock, op, updated, got, ret, hist, completed, versions, config0, started>>
       \/ /\ UNCHANGED <<file, written>>
          /\ Raise(t)
    /\ UNCHANGED anaVars

\* _write, line 54: write_text writes the JSON text and closes the file, or
\* the write fails and the record stays truncated
write_flush(t) ==
    /\ pc[t] = "u_opened"
    /\ \/ /\ file' = FullFile(updated[t])
          /\ pc' = [pc EXCEPT ![t] = "u_written"]
          /\ UNCHANGED <<config, lock, op, updated, got, ret, hist, completed, versions, config0, written, started>>
       \/ /\ UNCHANGED <<file, written>>
          /\ Raise(t)
    /\ UNCHANGED anaVars

\* line 84: self._config = updated
update_assign(t, counted) ==
    /\ pc[t] = "u_written"
    /\ config' = updated[t]
    /\ versions' = IF counted THEN versions \cup {updated[t]} ELSE versions
    /\ pc' = [pc EXCEPT ![t] = "u_assigned"]
    /\ UNCHANGED <<file, lock, op, updated, got, ret, hist, completed, config0, written, started>>
    /\ UNCHANGED anaVars

\* lines 85-89: a copy of `updated` is returned and the lock released
update_return(t, counted) ==
    /\ pc[t] = "u_assigned"
    /\ Release
    /\ LET r == RuntimeConfig(updated[t].ollama_base_url, updated[t].grammar_model,
                              updated[t].general_model)
           c == \E o \in Threads : o # t /\ pc[o] = "u_wait"
       IN /\ ret' = [ret EXCEPT ![t] = [kind |-> "config", value |-> r]]
          /\ hist' = [hist EXCEPT ![t] =
                        IF counted THEN NoHist
                        ELSE [op |-> IF hist[t].op = "retry" THEN "retried" ELSE "update",
                              pre |-> hist[t].pre, args |-> op[t].args, ret |-> r]]
          /\ completed' = IF counted
                           THEN Append(completed, [args |-> op[t].args, contended |-> c])
                           ELSE completed
    /\ pc' = [pc EXCEPT ![t] = "idle"]
    /\ op' = [op EXCEPT ![t] = NoOp]
    /\ updated' = [updated EXCEPT ![t] = NoData]
    /\ UNCHANGED <<file, config, got, versions, config0, written, started>>
    /\ UNCHANGED anaVars

(* get_runtime_config, lines 56-62, and get_model_config, lines 91-114 *)

API_CHAT == <<"/", "a", "p", "i", "/", "c", "h", "a", "t">>

\* a mutant of ModelConfig: every key gets the general model and its sampling
ModelConfigGeneralOnly(c, key) ==
    [name |-> c.general_model, endpoint |-> c.ollama_base_url \o API_CHAT,
     api_type |-> "ollama", temperature |-> 50, max_tokens |-> 768, top_p |-> 90]

\* get_model_config, lines 94-114, on the copy get_runtime_config returned;
\* temperature and top_p are in hundredths
ModelConfig(c, key) ==
    IF key = "grammar" \/ key = "analysis"
    THEN [name |-> c.grammar_model, endpoint |-> c.ollama_base_url \o API_CHAT,
          api_type |-> "ollama", temperature |-> 10, max_tokens |-> 512, top_p |-> 95]
    ELSE [name |-> c.general_model, endpoint |-> c.ollama_base_url \o API_CHAT,
          api_type |-> "ollama", temperature |-> 50, max_tokens |-> 768, top_p |-> 90]

ModelKeys == {"grammar", "analysis", "general"}

\* get_runtime_config is called, by a caller of the store (key "none") or by
\* get_model_config(key), line 92
get_call(t, keys) ==
    /\ pc[t] = "idle"
    /\ \E k \in keys :
          /\ op' = [op EXCEPT ![t] = [name |-> "get", args |-> NoArgs, key |-> k]]
          /\ hist' = [hist EXCEPT ![t] = IF k = "none" THEN hist[t] ELSE NoHist]
    /\ pc' = [pc EXCEPT ![t] = "g_wait"]
    /\ ret' = [ret EXCEPT ![t] = NoRet]
    /\ UNCHANGED <<file, config, lock, updated, got, completed, versions, config0, written, started>>
    /\ UNCHANGED anaVars

\* line 57: the lock is taken
get_acquire(t) ==
    /\ pc[t] = "g_wait"
    /\ LockFree
    /\ lock' = t
    /\ pc' = [pc EXCEPT ![t] = "g_url"]
    /\ UNCHANGED <<file, config, op, updated, got, ret, hist, completed, versions, config0, written, started>>
    /\ UNCHANGED anaVars

\* lines 59-61: the three fields of self._config are read one after another
get_read(t) ==
    /\ \/ /\ pc[t] = "g_url"
          /\ got' = [got EXCEPT ![t].ollama_base_url = config.ollama_base_url]
          /\ pc' = [pc EXCEPT ![t] = "g_grammar"]
       \/ /\ pc[t] = "g_grammar"
          /\ got' = [got EXCEPT ![t].grammar_model = config.grammar_model]
          /\ pc' = [pc EXCEPT ![t] = "g_general"]
       \/ /\ pc[t] = "g_general"
          /\ got' = [got EXCEPT ![t].general_model = config.general_model]
          /\ pc' = [pc EXCEPT ![t] = "g_built"]
    /\ UNCHANGED <<file, config, lock, op, updated, ret, hist, completed, versions, config0, written, started>>
    /\ UNCHANGED anaVars

\* line 58: the copy is returned and the lock released; get_model_config goes
\* on to build the ModelConfig from the copy
get_return(t) ==
    /\ pc[t] = "g_built"
    /\ Release
    /\ ret' = [ret EXCEPT ![t] =
                 IF op[t].key = "none"
                 THEN [kind |-> "config", value |-> got[t]]
                 ELSE [kind |-> "model", value |-> ModelConfig(got[t], op[t].key),
                       key |-> op[t].key]]
    /\ hist' = [hist EXCEPT ![t] =
                  IF op[t].key = "none" /\ hist[t].op \in {"update", "update_get"}
                  THEN [hist[t] EXCEPT !.op = "update_get"]
                  ELSE IF op[t].key = "none" /\ hist[t].op \in {"failed", "failed_get"}
                  THEN [hist[t] EXCEPT !.op = "failed_get"]
                  ELSE IF op[t].key = "none" /\ hist[t].op \in {"reloaded", "reloaded_get"}
                  THEN [hist[t] EXCEPT !.op = "reloaded_get"]
                  ELSE NoHist]
    /\ pc' = [pc EXCEPT ![t] = "idle"]
    /\ op' = [op EXCEPT ![t] = NoOp]
    /\ got' = [got EXCEPT ![t] = NoData]
    /\ UNCHANGED <<file, config, updated, completed, versions, config0, written, started>>
    /\ UNCHANGED anaVars

------------------------------------------------------------------------------
(* app/services/analysis.py *)

\* longest source text and longest quotation drawn from the alphabet
MaxTextLen == 3
MaxQuoteLen == 2
\* most entries in one model result of several entries, and most tool calls
MaxEntries == 2
MaxCalls == 3

REPORT_TOOL == "report_clarity_issues"

\* a mutant of find: the last occurrence, as str.rfind
findLast(text, quoted) ==
    LET hits == {i \in 0..(Len(text) - Len(quoted)) :
                    SubSeq(text, i + 1, i + Len(quoted)) = quoted}
    IN IF hits = {} THEN -1 ELSE CHOOSE i \in hits : \A j \in hits : j <= i

\* str.find from index i on: the scan from the left for the first match
RECURSIVE findFrom(_, _, _)
findFrom(text, quoted, i) ==
    IF i + Len(quoted) > Len(text) THEN -1
    ELSE IF SubSeq(text, i + 1, i + Len(quoted)) = quoted THEN i
    ELSE findFrom(text, quoted, i + 1)

\* line 155: text.find(quoted), a 0-based index or -1
find(text, quoted) == findFrom(text, quoted, 0)

\* a mutant of Found: the issue is built whatever find returned
FoundAlways(offset) == TRUE

\* line 157: offset != -1
Found(offset) == offset # -1

\* dict.get(key, default) on a key that may be missing
Get(x, default) == IF x.some THEN x.val ELSE default

\* the confidence an entry carries: none, a number (in hundredths), or a
\* value float() does not accept
NoConfidence == [kind |-> "absent", value |-> 0]
Number(n) == [kind |-> "number", value |-> n]
NotANumber == [kind |-> "text", value |-> 0]

\* line 148: float(item.get("confidence", 1.0)) raises on a value that is no
\* number
FloatRaises(c) == c.kind = "text"

\* a mutant of Float: a missing confidence counts as 0.0
FloatDefaultZero(c) == IF c.kind = "absent" THEN 0 ELSE c.value

Float(c) == IF c.kind = "absent" THEN 100 ELSE c.value

\* a mutant of MakeIssue: the length is one more than the quotation's
MakeIssueOffByOne(offset, quoted, issue_type, suggestion, confidence, src) ==
    [offset |-> offset, length |-> Len(quoted) + 1, quoted_text |-> quoted,
     issue_type |-> issue_type, suggestion |-> suggestion,
     confidence |-> confidence, src |-> src]

\* lines 158-165: the AnalysisIssue appended; src is the place of the entry
\* it was built from, <<tool call, entry>>, kept to tell the issues apart
MakeIssue(offset, quoted, issue_type, suggestion, confidence, src) ==
    [offset |-> offset, length |-> Len(quoted), quoted_text |-> quoted,
     issue_type |-> issue_type, suggestion |-> suggestion,
     confidence |-> confidence, src |-> src]

\* the enumeration of issue types, lines 34-37
IssueTypes == {"complexity", "passive_voice", "wordiness", "jargon", "tone"}

\* AnalysisIssue(...), lines 158-165: app.schemas declares the type of an
\* issue; a type outside the enumeration or a confidence outside [0, 1] is
\* not a value of it, and the construction raises
AnalysisIssueAccepts(issue_type, confidence) ==
    issue_type \in IssueTypes /\ 0 <= confidence /\ confidence <= 100

Done(issues) == [raised |-> FALSE, issues |-> issues]
Raised == [raised |-> TRUE, issues |-> <<>>]

\* lines 145-167: one entry of the issues list
ProcessItem(text, item, src) ==
    LET quoted == Get(item.quoted_text, <<>>)
        issue_type == Get(item.issue_type, "complexity")
        suggestion == Get(item.suggestion, <<>>)
    IN IF FloatRaises(item.confidence) THEN Raised
       ELSE IF quoted = <<>> \/ suggestion = <<>> THEN Done(<<>>)
       ELSE LET offset == find(text, quoted)
            IN IF ~Found(offset) THEN Done(<<>>)
               ELSE IF ~AnalysisIssueAccepts(issue_type, Float(item.confidence))
               THEN Raised
               ELSE Done(<<MakeIssue(offset, quoted, issue_type, suggestion,
                                     Float(item.confidence), src)>>)

\* a mutant of ProcessItems: a new issue is put in front of the list
RECURSIVE ProcessItemsReversed(_, _, _, _)
ProcessItemsReversed(text, items, ci, k) ==
    IF k > Len(items) THEN Done(<<>>)
    ELSE LET first == ProcessItem(text, items[k], <<ci, k>>)
         IN IF first.raised THEN Raised
            ELSE LET rest == ProcessItemsReversed(text, items, ci, k + 1)
                 IN IF rest.raised THEN Raised
                    ELSE Done(rest.issues \o first.issues)

\* line 144: the loop over raw_issues, from entry k on
RECURSIVE ProcessItems(_, _, _, _)
ProcessItems(text, items, ci, k) ==
    IF k > Len(items) THEN Done(<<>>)
    ELSE LET first == ProcessItem(text, items[k], <<ci, k>>)
         IN IF first.raised THEN Raised
            ELSE LET rest == ProcessItems(text, items, ci, k + 1)
                 IN IF rest.raised THEN Raised
                    ELSE Done(first.issues \o rest.issues)

\* a mutant of ProcessCalls: the name of the tool is not looked at
RECURSIVE ProcessCallsAnyName(_, _, _)
ProcessCallsAnyName(text, calls, ci) ==
    IF ci > Len(calls) THEN Done(<<>>)
    ELSE LET first == ProcessItems(text, calls[ci].issues, ci, 1)
         IN IF first.raised THEN Raised
            ELSE LET rest == ProcessCallsAnyName(text, calls, ci + 1)
                 IN IF rest.raised THEN Raised
                    ELSE Done(first.issues \o rest.issues)

\* lines 140-169: the loop over response.tool_calls, from call ci on
RECURSIVE ProcessCalls(_, _, _)
ProcessCalls(text, calls, ci) ==
    IF ci > Len(calls) THEN Done(<<>>)
    ELSE LET first == IF calls[ci].name = REPORT_TOOL
                      THEN ProcessItems(text, calls[ci].issues, ci, 1)
                      ELSE Done(<<>>)
         IN IF first.raised THEN Raised
            ELSE LET rest == ProcessCalls(text, calls, ci + 1)
                 IN IF rest.raised THEN Raised
                    ELSE Done(first.issues \o rest.issues)

(* inputs *)

Alphabet == {"a", "A"}

TheCatText ==
    <<"T","h","e"," ","c","a","t"," ","w","a","s"," ","b","e","i","n","g",
      " ","c","h","a","s","e","d"," ","b","y"," ","t","h","e"," ","d","o",
      "g",".">>

ChasedQuote ==
    <<"w","a","s"," ","b","e","i","n","g"," ","c","h","a","s","e","d">>

ChasingQuote ==
    <<"w","a","s"," ","c","h","a","s","i","n","g"," ","r","a","p","i","d",
      "l","y">>

Item(q, ty, s, c) ==
    [quoted_text |-> q, issue_type |-> ty, suggestion |-> s, confidence |-> c]

ToolCall(name, issues) == [name |-> name, issues |-> issues]

\* entries of any form, over short quotations and the quotations of the
\* cat-and-dog scenario
RichItems ==
    {Item(q, ty, s, c) :
        q \in Opt(Strs(Alphabet, MaxQuoteLen) \cup {ChasedQuote, ChasingQuote}),
        ty \in {None, Some("passive_voice")},
        s \in {None, Some(<<>>), Some(<<"s">>)},
        c \in {NoConfidence, Number(90), NotANumber}}

RichTexts == Strs(Alphabet, MaxTextLen) \cup {TheCatText}

\* entries over a few quotations, for the results of several entries
PlainItems ==
    {Item(Some(q), None, s, c) :
        q \in {<<"a">>, <<"a", "a">>},
        s \in {Some(<<>>), Some(<<"s">>)},
        c \in {NoConfidence, NotANumber}}
        \cup {Item(Some(<<"A">>), None, Some(<<"s">>), NoConfidence)}

PlainTexts == {<<"a", "A", "a">>, <<"A", "a", "a">>}

\* entries with a quotation that is found, over the types and confidences a
\* model may report: in and out of the enumeration, in and out of [0, 1]
TypedItems ==
    {Item(Some(<<"a">>), ty, Some(<<"s">>), c) :
        ty \in {None, Some("tone"), Some("other")},
        c \in {NoConfidence, Number(0), Number(100), Number(150), Number(-10),
               NotANumber}}

Seqs(S, n) == UNION {[1..k -> S] : k \in 0..n}

\* the number of calls to the expected tool among the first i calls
RECURSIVE Reports(_, _)
Reports(names, i) ==
    IF i = 0 THEN 0
    ELSE Reports(names, i - 1) + (IF names[i] = REPORT_TOOL THEN 1 ELSE 0)

\* the arguments of a call to another tool: an entry float() would raise on
\* and an entry that would give an issue
OtherToolEntries ==
    <<Item(Some(<<"a">>), None, Some(<<"s">>), NotANumber),
      Item(Some(<<"a">>), None, Some(<<"s">>), NoConfidence)>>

\* the tool calls of a model result: up to MaxCalls calls, to the expected
\* tool or to another one; the entries l go to the first two calls to the
\* expected tool, cut at position cut
Calls(names, l, cut) ==
    LET k == IF cut < Len(l) THEN cut ELSE Len(l)
    IN [i \in 1..Len(names) |->
          IF names[i] # REPORT_TOOL THEN ToolCall(names[i], OtherToolEntries)
          ELSE IF Reports(names, i) = 1 THEN ToolCall(names[i], SubSeq(l, 1, k))
          ELSE IF Reports(names, i) = 2
               THEN ToolCall(names[i], SubSeq(l, k + 1, Len(l)))
          ELSE ToolCall(names[i], <<>>)]

CallsOver(items) ==
    {Calls(names, l, cut) :
        names \in Seqs({REPORT_TOOL, "other_tool"}, MaxCalls),
        l \in Seqs(items, MaxEntries),
        cut \in 0..MaxEntries}

\* a text and a model result with one tool call of one entry
RichCases ==
    {[text |-> t, calls |-> <<ToolCall(REPORT_TOOL, <<e>>)>>] :
        t \in RichTexts, e \in RichItems}

\* a text and a model result of up to MaxCalls tool calls
PlainCases ==
    {[text |-> t, calls |-> cs] : t \in PlainTexts, cs \in CallsOver(PlainItems)}

\* a text and a model result with one tool call of up to MaxEntries entries
TypedCases ==
    {[text |-> t, calls |-> <<ToolCall(REPORT_TOOL, l)>>] :
        t \in PlainTexts, l \in Seqs(TypedItems, MaxEntries)}

NoCalls == <<>>
AnaIdle ==
    /\ aText = <<>>
    /\ aModel = ModelConfig(NoData, "analysis")
    /\ aResp = [kind |-> "none", calls |-> NoCalls]
    /\ aOut = [status |-> "none", issues |-> <<>>]

\* analyze, lines 64-132: the model call raises, and an empty response is
\* returned
analyze_failed ==
    /\ aOut.status = "none"
    /\ \E t \in RichTexts :
          /\ aText' = t
          /\ aModel' = ModelConfig(config, "analysis")
          /\ aResp' = [kind |-> "raised", calls |-> NoCalls]
          /\ aOut' = [status |-> "returned", issues |-> <<>>]
    /\ UNCHANGED storeVars

\* analyze, lines 64-180: the model call returns, and its tool calls are
\* reconciled with the text
analyze(cases) ==
    /\ aOut.status = "none"
    /\ \E c \in cases :
          /\ aText' = c.text
          /\ aModel' = ModelConfig(config, "analysis")
          /\ aResp' = [kind |-> "response", calls |-> c.calls]
          /\ LET r == ProcessCalls(c.text, c.calls, 1)
             IN aOut' = IF r.raised THEN [status |-> "raised", issues |-> <<>>]
                        ELSE [status |-> "returned", issues |-> r.issues]
    /\ UNCHANGED storeVars

------------------------------------------------------------------------------
(* app/models/client.py: _build_payload and _parse_response *)

\* most messages of a request and most tool calls of a response
MaxMessages == 2
MaxToolCalls == 2

\* the ModelConfig of a client: either api_type, either set of sampling values
ClientConfigs ==
    {[ModelConfig(DEFAULT_RUNTIME_CONFIG, k) EXCEPT !.api_type = a] :
        k \in {"grammar", "general"}, a \in {"ollama", "openai"}}

ChatMessages ==
    {[role |-> "system", content |-> "s"], [role |-> "user", content |-> "u"]}
MessageLists == Seqs(ChatMessages, MaxMessages)

\* the tools argument: None, or a list of tool declarations
ToolDecls == {[type |-> "function", name |-> n] : n \in {REPORT_TOOL, "other_tool"}}
ToolLists ==
    {None, Some(<<>>)} \cup {Some(<<d>>) : d \in ToolDecls}
        \cup {Some(<<d, e>>) : d, e \in ToolDecls}

\* `if tools:`, lines 83 and 91: None and the empty list are falsy
Truthy(x) == x.some /\ x.val # <<>>

\* a mutant of build_payload: the hosted-API envelope for every api_type
build_payload_flat(c, messages, tools) ==
    LET body == [model |-> c.name, messages |-> messages,
                 temperature |-> c.temperature, max_tokens |-> c.max_tokens,
                 top_p |-> c.top_p]
    IN IF Truthy(tools) THEN body @@ [tools |-> tools.val] ELSE body

\* _build_payload, lines 64-94; a dict is a function on its keys
build_payload(c, messages, tools) ==
    LET payload == [model |-> c.name, messages |-> messages]
        ollama == payload @@
                    [stream |-> FALSE,
                     options |-> [temperature |-> c.temperature,
                                  num_predict |-> c.max_tokens,
                                  top_p |-> c.top_p]]
        generic == payload @@
                     [temperature |-> c.temperature, max_tokens |-> c.max_tokens,
                      top_p |-> c.top_p]
    IN IF c.api_type = "ollama"
       THEN IF Truthy(tools) THEN ollama @@ [tools |-> tools.val] ELSE ollama
       ELSE IF Truthy(tools) THEN generic @@ [tools |-> tools.val] ELSE generic

(* JSON values of a response body: kind says what is at a key (nothing, null,
   a str, a dict, a list), val holds it *)

Absent == [kind |-> "absent", val |-> <<>>]
Null == [kind |-> "null", val |-> <<>>]
Str(s) == [kind |-> "str", val |-> s]
Dict(d) == [kind |-> "dict", val |-> d]
List(l) == [kind |-> "list", val |-> l]

\* the dicts of a response: a function (name, arguments), a tool call
\* (function), a message (content, tool_calls), a choice (message)
Function(name, arguments) == [name |-> name, arguments |-> arguments]
NoFunction == Function(Absent, Absent)
Message(content, tool_calls) == [content |-> content, tool_calls |-> tool_calls]
NoMessage == Message(Absent, Absent)

\* dict.get(key, default): the default only for a key that is absent
GetOr(x, default) == IF x.kind = "absent" THEN default ELSE x

\* `not x` for what is at a key: nothing (None), null, "", {} and []
Falsy(x, empty) == x.kind \in {"absent", "null"} \/ x.val = empty

(* inputs *)

ArgumentInputs ==
    {Absent, Dict(<<>>), Str(<<"{", "}">>), Str(<<"{">>)}

\* the tool calls of a response: without a function, with an empty one, with
\* a named function and its arguments
ToolCallInputs ==
    {[function |-> Absent], [function |-> Dict(NoFunction)]}
        \cup {[function |-> Dict(Function(Str(<<"f">>), a))] : a \in ArgumentInputs}
        \cup {[function |-> Dict(Function(Str(<<"g">>), Dict(<<"k">>)))]}

ToolCallLists ==
    {Absent, Null} \cup {List(l) : l \in Seqs(ToolCallInputs, MaxToolCalls)}

ContentInputs == {Absent, Null, Str(<<" ", "c", " ">>)}

MessageInputs ==
    {Absent, Null, Dict(NoMessage)}
        \cup {Dict(Message(c, l)) : c \in ContentInputs, l \in ToolCallLists}

\* response bodies: the local-inference shape and the hosted-API shape
OllamaBodies == {[message |-> m] : m \in MessageInputs}
OpenAIBodies ==
    {[choices |-> c] : c \in {Absent, Null, List(<<>>)}}
        \cup {[choices |-> List(<<[message |-> m]>>)] : m \in MessageInputs}

\* what _parse_response returns or raises
Parsed(content, tool_calls) ==
    [kind |-> "returned", type |-> "ModelResponse", content |-> content,
     tool_calls |-> tool_calls]
ParseRaised(type) ==
    [kind |-> "raised", type |-> type, content |-> <<>>, tool_calls |-> None]

\* lines 114-117 and 139-142: ToolCall(name=..., arguments=...)
ParsedCall(func) ==
    [name |-> GetOr(func.name, Str(<<>>)), arguments |-> GetOr(func.arguments, Dict(<<>>))]

\* a mutant of ParseToolCalls: a new call is put in front of the list
RECURSIVE ParseToolCallsReversed(_, _)
ParseToolCallsReversed(raw, i) ==
    IF i > Len(raw) THEN <<>>
    ELSE LET func == GetOr(raw[i].function, Dict(NoFunction))
         IN ParseToolCallsReversed(raw, i + 1)
                \o (IF func.val = NoFunction THEN <<>> ELSE <<ParsedCall(func.val)>>)

\* lines 111-117 and 130-142: the loop over raw_tool_calls; a call whose
\* function is missing or empty is passed over
RECURSIVE ParseToolCalls(_, _)
ParseToolCalls(raw, i) ==
    IF i > Len(raw) THEN <<>>
    ELSE LET func == GetOr(raw[i].function, Dict(NoFunction))
         IN (IF func.val = NoFunction THEN <<>> ELSE <<ParsedCall(func.val)>>)
                \o ParseToolCalls(raw, i + 1)

\* lines 109-117, 128-142 and 144: tool_calls of the result, None when no
\* call was kept
ToolCallsOf(message) ==
    LET raw == message.tool_calls
        kept == IF Falsy(raw, <<>>) THEN <<>> ELSE ParseToolCalls(raw.val, 1)
    IN IF kept = <<>> THEN None ELSE Some(kept)

\* _parse_response, lines 96-144
parse_response(c, payload) ==
    IF c.api_type = "ollama"
    THEN LET message == payload.message
         IN IF Falsy(message, NoMessage) THEN ParseRaised("ModelClientError")
            ELSE LET content == GetOr(message.val.content, Str(<<>>))
                 IN IF content.kind = "null" THEN ParseRaised("AttributeError")
                    ELSE Parsed(strip(content.val), ToolCallsOf(message.val))
    ELSE LET choices == payload.choices
         IN IF Falsy(choices, <<>>) THEN ParseRaised("ModelClientError")
            ELSE LET message == choices.val[1].message
                 IN IF message.kind = "absent" THEN ParseRaised("KeyError")
                    ELSE IF message.kind = "null" THEN ParseRaised("AttributeError")
                    ELSE LET content == GetOr(message.val.content, Str(<<>>))
                         IN Parsed(IF Falsy(content, <<>>) THEN <<>> ELSE content.val,
                                   ToolCallsOf(message.val))

NoClientCall == [op |-> "none"]

\* a client is constructed, lines 42-44, and builds a request body
client_build ==
    /\ cli = NoClientCall
    /\ \E c \in ClientConfigs, m \in MessageLists, t \in ToolLists :
          cli' = [op |-> "build", config |-> c, messages |-> m, tools |-> t,
                  out |-> build_payload(c, m, t)]
    /\ UNCHANGED <<storeVars, anaVars, svc, gets>>

\* a client is constructed, lines 42-44, and parses a response body
client_parse(api_type, bodies) ==
    /\ cli = NoClientCall
    /\ \E c \in {x \in ClientConfigs : x.api_type = api_type}, b \in bodies :
          cli' = [op |-> "parse", config |-> c, body |-> b,
                  out |-> parse_response(c, b)]
    /\ UNCHANGED <<storeVars, anaVars, svc, gets>>

------------------------------------------------------------------------------
(* app/services/editing.py, app/models/routers.py, app/prompts.py and the
   network calls of app/models/client.py and app/config_manager.py *)

\* most service calls one thread makes
MaxServed == 2

Modes == {"proofread", "rewrite", "tone", "technical"}

\* a mutant of resolve_model_key: every mode goes to the general model
resolve_model_key_general(mode) == "general"

\* routers.py, lines 7-17
resolve_model_key(mode) == IF mode = "proofread" THEN "grammar" ELSE "general"

\* tone=None
NoTone == "None"

\* a mutant of ToneMissing: the tone is never asked for
ToneNeverMissing(mode, tone) == FALSE

\* prompts.py, lines 58-60: mode tone and `not tone`
ToneMissing(mode, tone) == mode = "tone" /\ tone \in {NoTone, ""}

\* the edits served: (mode, tone)
EditInputs ==
    {<<"proofread", NoTone>>, <<"rewrite", NoTone>>, <<"technical", NoTone>>,
     <<"tone", NoTone>>, <<"tone", "concise">>}

\* prompts.py, lines 62-75: the system and the user message of an edit
EditMessages ==
    <<[role |-> "system", content |-> "s"], [role |-> "user", content |-> "u"]>>

\* analysis.py, line 129: tools=[CLARITY_TOOL]
AnalysisTools == Some(<<[type |-> "function", name |-> REPORT_TOOL]>>)

\* client.py, lines 52-57: the payload is built and posted to the endpoint
Request(c, messages, tools) ==
    LET payload == build_payload(c, messages, tools)
    IN [url |-> c.endpoint, model |-> payload.model,
        tools |-> "tools" \in DOMAIN payload]

API_TAGS == <<"/", "a", "p", "i", "/", "t", "a", "g", "s">>

NoRequest == [url |-> <<>>, model |-> <<>>, tools |-> FALSE]
NoResult == [type |-> "none", cause |-> "none"]
NoSvc ==
    [kind |-> "none", stage |-> "idle", mode |-> "none", tone |-> NoTone,
     key |-> "none", request |-> NoRequest, requests |-> 0, outcome |-> "none",
     generated |-> NoResult, result |-> NoResult, prev |-> NoRequest,
     window |-> {}, mark |-> 0, n |-> 0]

\* how a request ends: a 2xx response with a well-formed body, a 2xx
\* response whose body lacks the message, or one of the httpx.HTTPError
\* exceptions of client.post and raise_for_status
HTTPErrors == {"ConnectError", "TimeoutException", "HTTPStatusError"}
Outcomes == {"ok", "malformed"} \cup HTTPErrors

\* a mutant of ResolvedConfig: the ModelConfig built from the config the
\* store was constructed with is used for every call
ResolvedAtStartup(t) == ModelConfig(config0, ret[t].key)

\* editing.py, lines 46-47, and analysis.py, lines 66-67: the client gets
\* the ModelConfig this call's get_model_config returned
ResolvedConfig(t) == ret[t].value

\* a mutant of Raises: the httpx exception leaves generate as it is
RaisesUnwrapped(outcome) == [type |-> outcome, cause |-> "none"]

\* client.py, lines 58-59: raise ModelClientError(str(exc)) from exc
Raises(outcome) == [type |-> "ModelClientError", cause |-> outcome]

\* client.py, lines 54-62: what generate returns or raises
Generate(outcome) ==
    IF outcome \in HTTPErrors THEN Raises(outcome)
    ELSE IF outcome = "malformed"
    THEN [type |-> "ModelClientError", cause |-> "none"]
    ELSE [type |-> "ModelResponse", cause |-> "none"]

\* a mutant of AfterRequest: after a failed request the call stands again
\* before its request
AfterRequestRetry(s, outcome, result) ==
    IF outcome \in HTTPErrors /\ s.requests < 2
    THEN [s EXCEPT !.stage = "resolving"]
    ELSE [s EXCEPT !.stage = "done", !.result = result, !.window = {}, !.mark = 0]

\* client.py, lines 56-62, and editing.py, lines 57-74: whatever the request
\* gave, the call ends with it
AfterRequest(s, outcome, result) ==
    [s EXCEPT !.stage = "done", !.result = result, !.window = {}, !.mark = 0]

\* the request of t's call is sent and its response has not arrived
InFlight(t) == svc[t].stage = "in_flight"

\* the configs self._config holds while a call resolves its ModelConfig
Watch ==
    svc' = [t \in Threads |->
              IF svc[t].stage = "resolving" /\ pc[t] # "idle"
              THEN [svc[t] EXCEPT !.window = @ \cup {config'}]
              ELSE svc[t]]

\* a service call begins: EditingService.edit, line 45, AnalysisService.analyze,
\* line 66, or ConfigManager.list_available_models, line 117
Begin(t, kind, mode, tone, key) ==
    /\ svc[t].stage \in {"idle", "done"}
    /\ svc[t].n < MaxServed
    /\ svc' = [svc EXCEPT ![t] =
                 [NoSvc EXCEPT !.kind = kind, !.stage = "resolving", !.mode = mode,
                               !.tone = tone, !.key = key, !.window = {config},
                               !.prev = svc[t].request, !.n = svc[t].n + 1]]
    /\ get_call(t, {key})

\* edit, lines 45-46
edit_call(t) ==
    \E in \in EditInputs : Begin(t, "edit", in[1], in[2], resolve_model_key(in[1]))

\* analyze, line 66
analyze_call(t) == Begin(t, "analyze", "none", NoTone, "analysis")

\* list_available_models, line 117
list_call(t) == Begin(t, "list", "none", NoTone, "none")

\* edit, lines 47-57: the messages are built, which fails for a missing
\* tone, and client.generate posts the payload to the endpoint
edit_send(t) ==
    /\ svc[t].kind = "edit" /\ svc[t].stage = "resolving"
    /\ pc[t] = "idle" /\ ret[t].kind = "model"
    /\ svc' = [svc EXCEPT ![t] =
                 IF ToneMissing(svc[t].mode, svc[t].tone)
                 THEN [@ EXCEPT !.stage = "done", !.window = {},
                                !.result = [type |-> "ValueError", cause |-> "none"]]
                 ELSE [@ EXCEPT !.stage = "in_flight",
                                !.request = Request(ResolvedConfig(t), EditMessages, None),
                                !.requests = @ + 1,
                                !.mark = started]]
    /\ UNCHANGED storeVars

\* analyze, lines 67-129: client.generate posts the payload to the endpoint
analyze_send(t) ==
    /\ svc[t].kind = "analyze" /\ svc[t].stage = "resolving"
    /\ pc[t] = "idle" /\ ret[t].kind = "model"
    /\ svc' = [svc EXCEPT ![t] =
                 [@ EXCEPT !.stage = "in_flight",
                           !.request = Request(ResolvedConfig(t), EditMessages,
                                               AnalysisTools),
                           !.requests = @ + 1,
                           !.mark = started]]
    /\ UNCHANGED storeVars

\* list_available_models, lines 118-120: GET {base}/api/tags
list_send(t) ==
    /\ svc[t].kind = "list" /\ svc[t].stage = "resolving"
    /\ pc[t] = "idle" /\ ret[t].kind = "config"
    /\ svc' = [svc EXCEPT ![t] =
                 [@ EXCEPT !.stage = "in_flight",
                           !.request = [url |-> ret[t].value.ollama_base_url \o API_TAGS,
                                        model |-> <<>>, tools |-> FALSE],
                           !.requests = @ + 1,
                           !.mark = started]]
    /\ UNCHANGED storeVars

\* the request of an edit ends; edit returns generate's response or lets its
\* exception through, lines 57-74
edit_respond(t) ==
    /\ svc[t].kind = "edit" /\ svc[t].stage = "in_flight"
    /\ \E o \in Outcomes :
          svc' = [svc EXCEPT ![t] =
                    AfterRequest([@ EXCEPT !.outcome = o, !.generated = Generate(o)],
                                 o, Generate(o))]
    /\ UNCHANGED storeVars

\* the request of an analysis ends; analyze returns an empty response for
\* any exception of generate, lines 127-132
analyze_respond(t) ==
    /\ svc[t].kind = "analyze" /\ svc[t].stage = "in_flight"
    /\ \E o \in Outcomes :
          svc' = [svc EXCEPT ![t] =
                    AfterRequest([@ EXCEPT !.outcome = o, !.generated = Generate(o)], o,
                        IF Generate(o).type = "ModelResponse"
                        THEN [type |-> "AnalysisResponse", cause |-> "none"]
                        ELSE [type |-> "AnalysisResponse", cause |-> Generate(o).type])]
    /\ UNCHANGED storeVars

\* the request of a model listing ends; the httpx exceptions leave
\* list_available_models as they are, lines 119-124
list_respond(t) ==
    /\ svc[t].kind = "list" /\ svc[t].stage = "in_flight"
    /\ \E o \in {"ok"} \cup HTTPErrors :
          svc' = [svc EXCEPT ![t] =
                    AfterRequest([@ EXCEPT !.outcome = o], o,
                        IF o = "ok" THEN [type |-> "list", cause |-> "none"]
                        ELSE [type |-> o, cause |-> "none"])]
    /\ UNCHANGED storeVars

(* what a caller does with the RuntimeConfig it was handed *)

\* no get or update has returned since the last update call
NoGets == [vals |-> <<>>, alias |-> FALSE, dirty |-> FALSE, checked |-> FALSE]

\* a mutant of ReturnsStoreObject: get_runtime_config returns self._config
ReturnsStoreObjectOnGet(by) == by = "get"

\* config_manager.py, lines 58-62 and 85-89: the return statements of
\* get_runtime_config and update_runtime_config construct a RuntimeConfig, so
\* the object handed out is not the one self._config refers to
ReturnsStoreObject(by) == FALSE

\* the first and the latest of the values returned
Keep2(vals, v) == IF vals = <<>> THEN <<v>> ELSE <<vals[1], v>>

\* an update is called
copy_update_call(t, inputs) ==
    /\ update_call(t, inputs, FALSE)
    /\ gets' = NoGets

\* update_runtime_config returns, lines 85-89
copy_update_return(t) ==
    /\ update_return(t, FALSE)
    /\ gets' = [NoGets EXCEPT !.vals = <<ret'[t].value>>,
                              !.alias = ReturnsStoreObject("update")]

\* get_runtime_config returns, lines 58-62, to its caller or to
\* get_model_config
copy_get_return(t) ==
    /\ get_return(t)
    /\ gets' = IF op[t].key = "none"
               THEN [vals |-> Keep2(gets.vals, ret'[t].value),
                     alias |-> ReturnsStoreObject("get"),
                     dirty |-> gets.dirty, checked |-> gets.dirty]
               ELSE [gets EXCEPT !.checked = gets.dirty]

\* the fields a caller overwrites, and the value it writes
MutableFields == {"ollama_base_url", "general_model"}
Scribble == <<"x">>

\* the caller assigns to a field of the RuntimeConfig the store returned to
\* it (the dataclass, lines 23-29, is not frozen); the store sees the
\* assignment only if that object is its own
mutate(t) ==
    /\ pc[t] = "idle"
    /\ ret[t].kind = "config"
    /\ \E f \in MutableFields :
          /\ ret[t].value[f] # Scribble
          /\ ret' = [ret EXCEPT ![t].value[f] = Scribble]
    /\ config' = IF gets.alias THEN ret'[t].value ELSE config
    /\ gets' = [gets EXCEPT !.dirty = TRUE]
    /\ UNCHANGED <<file, lock, pc, op, updated, got, hist, completed, versions,
                   config0, written, started>>

ExtIdle ==
    /\ svc = [t \in Threads |-> NoSvc]
    /\ gets = NoGets
    /\ cli = NoClientCall

------------------------------------------------------------------------------
(* __init__, lines 35-38 *)

InitWith(files) ==
    /\ \E f \in files :
          /\ file = LoadFile(f)
          /\ config = LoadConfig(LoadFile(f).data)
          /\ written = (f.kind = "absent")
    /\ config0 = config
    /\ versions = {config}
    /\ lock = 0
    /\ pc = [t \in Threads |-> "idle"]
    /\ op = [t \in Threads |-> NoOp]
    /\ updated = [t \in Threads |-> NoData]
    /\ got = [t \in Threads |-> NoData]
    /\ ret = [t \in Threads |-> NoRet]
    /\ hist = [t \in Threads |-> NoHist]
    /\ completed = <<>>
    /\ started = 0
    /\ AnaIdle
    /\ ExtIdle

\* __init__, lines 35-38: the process ends with no call in progress and a new
\* ConfigManager is constructed on the same path; _load reads the record the
\* earlier store left (a record that is no JSON object makes json.load
\* raise, and no store is constructed)
restart(t) ==
    /\ \A o \in Threads : pc[o] = "idle"
    /\ lock = 0
    /\ file.kind = "full"
    /\ config' = LoadConfig(file.data)
    /\ config0' = config'
    /\ versions' = {config'}
    /\ written' = FALSE
    /\ ret' = [o \in Threads |-> NoRet]
    /\ hist' = [o \in Threads |->
                  IF o = t /\ hist[t].op \in {"update", "update_get", "retried"}
                  THEN [hist[t] EXCEPT !.op = "reloaded"]
                  ELSE NoHist]
    /\ UNCHANGED <<file, lock, pc, op, updated, got, completed, started>>
    /\ UNCHANGED anaVars

(* The store called by one thread, with every update input *)

InitStore == InitWith({AbsentFile} \cup {FullFile(d) : d \in InitRecords})

NextStore ==
    \/ update_call(1, StoreInputs, FALSE) /\ UNCHANGED extVars
    \/ update_merge(1, FALSE) /\ UNCHANGED extVars
    \/ write_open(1) /\ UNCHANGED extVars
    \/ write_flush(1) /\ UNCHANGED extVars
    \/ update_assign(1, FALSE) /\ UNCHANGED extVars
    \/ update_return(1, FALSE) /\ UNCHANGED extVars
    \/ get_call(1, {"none"} \cup ModelKeys) /\ UNCHANGED extVars
    \/ get_acquire(1) /\ UNCHANGED extVars
    \/ get_read(1) /\ UNCHANGED extVars
    \/ get_return(1) /\ UNCHANGED extVars

SpecStore == InitStore /\ [][NextStore]_vars

(* The store called by NumThreads threads at once *)

InitConc == InitWith({AbsentFile})

NextConc ==
    \E t \in Threads :
        \/ update_call(t, ConcInputs, TRUE) /\ UNCHANGED extVars
        \/ update_merge(t, TRUE) /\ UNCHANGED extVars
        \/ write_open(t) /\ UNCHANGED extVars
        \/ write_flush(t) /\ UNCHANGED extVars
        \/ update_assign(t, TRUE) /\ UNCHANGED extVars
        \/ update_return(t, TRUE) /\ UNCHANGED extVars
        \/ get_call(t, {"none", "general"}) /\ UNCHANGED extVars
        \/ get_acquire(t) /\ UNCHANGED extVars
        \/ get_read(t) /\ UNCHANGED extVars
        \/ get_return(t) /\ UNCHANGED extVars

SpecConc == InitConc /\ [][NextConc]_vars

(* One analysis by a freshly constructed service *)

InitAnalyze == InitWith({AbsentFile})

NextAnalyze ==
    \/ analyze_failed /\ UNCHANGED extVars
    \/ analyze(RichCases) /\ UNCHANGED extVars
    \/ analyze(PlainCases) /\ UNCHANGED extVars

SpecAnalyze == InitAnalyze /\ [][NextAnalyze]_vars

(* One analysis of a model result with any types and confidences *)

NextTyped == analyze(TypedCases) /\ UNCHANGED extVars

SpecTyped == InitAnalyze /\ [][NextTyped]_vars

(* Edits, analyses, model listings and updates by NumThreads threads *)

\* the update of these runs changes the base URL and both model names
ServeInputs == {Args(Some(<<"h", "2">>), Some(<<"m", "2">>), Some(<<"g", "2">>))}

InitServe == InitWith({AbsentFile})

\* the thread that serves the edits, analyses and model listings; the other
\* threads call the store
Server == 1

NextServe ==
    \/ edit_call(Server) /\ UNCHANGED <<gets, cli>>
    \/ analyze_call(Server) /\ UNCHANGED <<gets, cli>>
    \/ list_call(Server) /\ UNCHANGED <<gets, cli>>
    \/ edit_send(Server) /\ UNCHANGED <<anaVars, gets, cli>>
    \/ analyze_send(Server) /\ UNCHANGED <<anaVars, gets, cli>>
    \/ list_send(Server) /\ UNCHANGED <<anaVars, gets, cli>>
    \/ edit_respond(Server) /\ UNCHANGED <<anaVars, gets, cli>>
    \/ analyze_respond(Server) /\ UNCHANGED <<anaVars, gets, cli>>
    \/ list_respond(Server) /\ UNCHANGED <<anaVars, gets, cli>>
    \/ get_acquire(Server) /\ UNCHANGED extVars
    \/ get_read(Server) /\ UNCHANGED extVars
    \/ get_return(Server) /\ UNCHANGED extVars
    \/ \E t \in Threads \ {Server} :
          \/ update_call(t, ServeInputs, TRUE) /\ UNCHANGED extVars
          \/ update_merge(t, TRUE) /\ UNCHANGED extVars
          \/ write_open(t) /\ UNCHANGED extVars
          \/ write_flush(t) /\ UNCHANGED extVars
          \/ update_assign(t, TRUE) /\ Watch /\ UNCHANGED <<gets, cli>>
          \/ update_return(t, TRUE) /\ UNCHANGED extVars

SpecServe == InitServe /\ [][NextServe]_vars

(* One call of a ModelClient, of either api_type *)

InitClient == InitWith({AbsentFile})

NextClient ==
    \/ client_build
    \/ client_parse("ollama", OllamaBodies)
    \/ client_parse("openai", OpenAIBodies)

SpecClient == InitClient /\ [][NextClient]_vars

(* One caller of a store that is constructed again on the same path *)

ReloadInputs ==
    {Args(Some(<<"h", " ", "/">>), None, None),
     Args(Some(<<"h", "/">>), Some(<<"m">>), None),
     Args(None, None, Some(<<"g", " ">>))}

InitReload == InitWith({AbsentFile})

NextReload ==
    \/ update_call(1, ReloadInputs, FALSE) /\ UNCHANGED extVars
    \/ update_merge(1, FALSE) /\ UNCHANGED extVars
    \/ write_open(1) /\ UNCHANGED extVars
    \/ write_flush(1) /\ UNCHANGED extVars
    \/ update_assign(1, FALSE) /\ UNCHANGED extVars
    \/ update_return(1, FALSE) /\ UNCHANGED extVars
    \/ restart(1) /\ UNCHANGED extVars
    \/ get_call(1, {"none"}) /\ UNCHANGED extVars
    \/ get_acquire(1) /\ UNCHANGED extVars
    \/ get_read(1) /\ UNCHANGED extVars
    \/ get_return(1) /\ UNCHANGED extVars

SpecReload == InitReload /\ [][NextReload]_vars

(* One caller that gets, updates, and writes to the values it was handed *)

CopyInputs ==
    {Args(None, Some(<<"m">>), None),
     Args(Some(<<"h", "/">>), None, Some(<<"g", " ">>))}

InitCopy == InitWith({AbsentFile})

NextCopy ==
    \/ copy_update_call(1, CopyInputs) /\ UNCHANGED <<anaVars, svc, cli>>
    \/ update_merge(1, FALSE) /\ UNCHANGED extVars
    \/ write_open(1) /\ UNCHANGED extVars
    \/ write_flush(1) /\ UNCHANGED extVars
    \/ update_assign(1, FALSE) /\ UNCHANGED extVars
    \/ copy_update_return(1) /\ UNCHANGED <<anaVars, svc, cli>>
    \/ get_call(1, {"none", "general"}) /\ UNCHANGED extVars
    \/ get_acquire(1) /\ UNCHANGED extVars
    \/ get_read(1) /\ UNCHANGED extVars
    \/ copy_get_return(1) /\ UNCHANGED <<anaVars, svc, cli>>
    \/ mutate(1) /\ UNCHANGED <<anaVars, svc, cli>>

SpecCopy == InitCopy /\ [][NextCopy]_vars

------------------------------------------------------------------------------
(* Claims about the analysis *)

\* the places <<tool call, entry>> of the entries reported through the
\* expected tool
Entries ==
    UNION {{<<ci, k>> : k \in 1..Len(aResp.calls[ci].issues)} :
              ci \in {i \in 1..Len(aResp.calls) :
                         aResp.calls[i].name = REPORT_TOOL}}

EntryAt(src) == aResp.calls[src[1]].issues[src[2]]
QuotedOf(e) == IF e.quoted_text.some THEN e.quoted_text.val ELSE <<>>
SuggestionOf(e) == IF e.suggestion.some THEN e.suggestion.val ELSE <<>>

\* q occurs in t at the 0-based index i, character for character
OccursAt(q, t, i) ==
    /\ i + Len(q) <= Len(t)
    /\ \A j \in 1..Len(q) : t[i + j] = q[j]

IsSubstring(q, t) == \E i \in 0..Len(t) : OccursAt(q, t, i)

IsFirstOccurrence(q, t, i) ==
    /\ OccursAt(q, t, i)
    /\ \A j \in 0..(i - 1) : ~OccursAt(q, t, j)

\* the returned issues built from the entry at src
IssuesFor(src) == {i \in 1..Len(aOut.issues) : aOut.issues[i].src = src}

\* C1: after any analysis of a text against any model result, every returned
\* issue has offset >= 0, length > 0, offset + length <= len(T) and
\* T[offset : offset+length] == quoted_text, and no issue is returned for an
\* entry whose quoted text does not occur in T.
C1_IssuesMatchText ==
    aOut.status # "none" =>
        /\ \A i \in 1..Len(aOut.issues) :
              LET x == aOut.issues[i]
              IN /\ x.offset >= 0
                 /\ x.length > 0
                 /\ x.offset + x.length <= Len(aText)
                 /\ SubSeq(aText, x.offset + 1, x.offset + x.length)
                        = x.quoted_text
        /\ \A src \in Entries :
              ~IsSubstring(QuotedOf(EntryAt(src)), aText) => IssuesFor(src) = {}

\* an analysis that returned an issue and dropped an entry, well-formed
\* otherwise, whose quotation is not in the text
C1_Witness ==
    /\ aOut.status = "returned"
    /\ aOut.issues # <<>>
    /\ \E src \in Entries :
          /\ QuotedOf(EntryAt(src)) # <<>>
          /\ SuggestionOf(EntryAt(src)) # <<>>
          /\ ~IsSubstring(QuotedOf(EntryAt(src)), aText)
          /\ IssuesFor(src) = {}

Surfaceable(e, t) ==
    /\ QuotedOf(e) # <<>>
    /\ SuggestionOf(e) # <<>>
    /\ IsSubstring(QuotedOf(e), t)

CatScenario ==
    /\ aText = TheCatText
    /\ aResp.kind = "response"
    /\ Len(aResp.calls) = 1
    /\ aResp.calls[1].name = REPORT_TOOL
    /\ Len(aResp.calls[1].issues) = 1
    /\ LET e == aResp.calls[1].issues[1]
       IN /\ e.quoted_text = Some(ChasedQuote)
          /\ e.issue_type = Some("passive_voice")
          /\ SuggestionOf(e) # <<>>
          /\ e.confidence = NoConfidence

\* C3 as stated: the scenario gives exactly one issue, with offset 8 and
\* length 17.
C3_CatIssueLength17 ==
    CatScenario =>
        /\ aOut.status = "returned"
        /\ Len(aOut.issues) = 1
        /\ aOut.issues[1].offset = 8
        /\ aOut.issues[1].length = 17

\* C3: the scenario gives exactly one issue, with offset 8 and length 16,
\* the number of characters of "was being chased".
C3_CatIssueLength16 ==
    CatScenario =>
        /\ aOut.status = "returned"
        /\ Len(aOut.issues) = 1
        /\ aOut.issues[1].offset = 8
        /\ aOut.issues[1].length = 16
        /\ aOut.issues[1].issue_type = "passive_voice"

\* the scenario was analysed and an issue came back
C3_Witness == CatScenario /\ aOut.status = "returned" /\ aOut.issues # <<>>

\* the entries whose confidence float() accepts
Convertible(src) == ~FloatRaises(EntryAt(src).confidence)

\* the entry is malformed (quotation or suggestion empty or missing) or
\* unverifiable (quotation not in the text)
Skippable(e, t) == ~Surfaceable(e, t)

\* C23: when every entry that is neither malformed nor unverifiable can be
\* processed, the malformed and unverifiable entries, whatever their other
\* fields hold, do not fail the reconciliation: it returns, with no issue
\* for them and one issue for every other entry, before or after them.
C23_MalformedSkipped ==
    (/\ aResp.kind = "response"
     /\ \A src \in Entries :
           Surfaceable(EntryAt(src), aText) => Convertible(src)) =>
        /\ aOut.status = "returned"
        /\ \A src \in Entries :
              IF Skippable(EntryAt(src), aText)
              THEN IssuesFor(src) = {}
              ELSE Cardinality(IssuesFor(src)) = 1

\* src1 is reported before src2: in an earlier tool call, or earlier in the
\* same one
Before(src1, src2) ==
    src1[1] < src2[1] \/ (src1[1] = src2[1] /\ src1[2] < src2[2])

\* C24: the issues returned are built from the entries that pass
\* verification, one each, and stand in the order in which the model
\* reported those entries, whatever their offsets.
C24_ReportedOrder ==
    aOut.status = "returned" =>
        /\ \A i \in 1..Len(aOut.issues) :
              /\ aOut.issues[i].src \in Entries
              /\ Surfaceable(EntryAt(aOut.issues[i].src), aText)
        /\ \A i, j \in 1..Len(aOut.issues) :
              i < j => Before(aOut.issues[i].src, aOut.issues[j].src)
        /\ aResp.kind = "response" =>
              \A src \in Entries :
                  Surfaceable(EntryAt(src), aText) => IssuesFor(src) # {}

\* issues came back from two tool calls, the first at a larger offset than
\* the second
C24_Witness ==
    /\ aOut.status = "returned"
    /\ Len(aOut.issues) = 2
    /\ aOut.issues[1].offset > aOut.issues[2].offset
    /\ aOut.issues[1].src[1] < aOut.issues[2].src[1]

\* C27: every issue returned is built from an entry of a call to
\* report_clarity_issues; a call to another tool gives no issue and no
\* error, whatever its arguments hold, and the calls to the expected tool
\* before and after it are reconciled as without it; a model result without
\* tool calls gives an empty issue list.
C27_OnlyReportTool ==
    aResp.kind = "response" =>
        /\ \A i \in 1..Len(aOut.issues) :
              aResp.calls[aOut.issues[i].src[1]].name = REPORT_TOOL
        /\ aResp.calls = <<>> => (aOut.status = "returned" /\ aOut.issues = <<>>)
        /\ (\A src \in Entries : Convertible(src)) =>
              /\ aOut.status = "returned"
              /\ \A src \in Entries :
                    Surfaceable(EntryAt(src), aText) =>
                        Cardinality(IssuesFor(src)) = 1

\* a call to another tool, with an entry that would raise and one that would
\* give an issue, stands between two calls to the expected tool, and both of
\* these gave their issue
C27_Witness ==
    /\ aOut.status = "returned"
    /\ Len(aResp.calls) = 3
    /\ aResp.calls[1].name = REPORT_TOOL
    /\ aResp.calls[2].name # REPORT_TOOL
    /\ aResp.calls[3].name = REPORT_TOOL
    /\ \E k \in 1..Len(aResp.calls[2].issues) :
          FloatRaises(aResp.calls[2].issues[k].confidence)
    /\ \E k \in 1..Len(aResp.calls[2].issues) :
          /\ Surfaceable(aResp.calls[2].issues[k], aText)
          /\ ~FloatRaises(aResp.calls[2].issues[k].confidence)
    /\ IssuesFor(<<1, 1>>) # {}
    /\ IssuesFor(<<3, 1>>) # {}
    /\ Len(aOut.issues) = 2

\* a model result without tool calls was reconciled
C27_NoCalls == aResp.kind = "response" /\ aResp.calls = <<>> /\ aOut.status = "returned"

------------------------------------------------------------------------------
(* Claims about the configuration store *)

Specified(x) == x.some /\ x.val # <<>>

\* thread t holds the lock inside update_runtime_config
Updating(t) == pc[t] \in {"u_merged", "u_opened", "u_written", "u_assigned"}

\* t's last two calls were an update that returned and then a get
UpdateThenGet(t) ==
    pc[t] = "idle" /\ hist[t].op = "update_get" /\ ret[t].kind = "config"

\* C4: after update(fields) and then get(), every field that was not supplied
\* (None or empty) has its value from before the update, every supplied field
\* is its input trimmed (the base URL also without trailing slashes), and
\* update returned what get returns.
C4_PartialUpdate ==
    \A t \in Threads :
        UpdateThenGet(t) =>
            LET a == hist[t].args
                pre == hist[t].pre
                g == ret[t].value
            IN /\ g.ollama_base_url =
                    IF Specified(a.ollama_base_url)
                    THEN rstrip(strip(a.ollama_base_url.val), {"/"})
                    ELSE pre.ollama_base_url
               /\ g.grammar_model =
                    IF Specified(a.grammar_model) THEN strip(a.grammar_model.val)
                    ELSE pre.grammar_model
               /\ g.general_model =
                    IF Specified(a.general_model) THEN strip(a.general_model.val)
                    ELSE pre.general_model
               /\ hist[t].ret = g

\* C5: the base URL in memory never ends with a slash, and neither does the
\* one in a record this store has written.
C5_NoTrailingSlash ==
    /\ ~EndsWith(config.ollama_base_url, "/")
    /\ (written /\ file.kind = "full") => ~EndsWith(file.data.ollama_base_url, "/")

\* an update whose base URL input ended in slashes has been persisted and
\* installed
C5_Witness ==
    \E t \in Threads :
        /\ hist[t].op = "update"
        /\ EndsWith(strip(hist[t].args.ollama_base_url.val), "/")
        /\ config.ollama_base_url = <<"h">>
        /\ written
        /\ file = FullFile(config)

\* C6: both model identifiers are non-empty and carry no surrounding
\* whitespace, in every state of the store.
C6_ModelIdsNonEmptyTrimmed ==
    /\ config.grammar_model # <<>>
    /\ config.general_model # <<>>
    /\ strip(config.grammar_model) = config.grammar_model
    /\ strip(config.general_model) = config.general_model

\* the updates `seq` applied one at a time, each to the result of the one
\* before it
RECURSIVE ApplyAll(_, _)
ApplyAll(c, seq) ==
    IF seq = <<>> THEN c ELSE ApplyAll(Merge(c, Head(seq).args), Tail(seq))

Perms(n) == {p \in [1..n -> 1..n] : \A i, j \in 1..n : p[i] = p[j] => i = j}

SetsField(a, f) ==
    CASE f = "url" -> Specified(a.ollama_base_url)
      [] f = "grammar" -> Specified(a.grammar_model)
      [] f = "general" -> Specified(a.general_model)

\* C7: whenever no update holds the lock, the config in memory is what the
\* updates that have returned give when applied one at a time, in some order,
\* to the config the store was constructed with.
C7_UpdatesLinearized ==
    (\A t \in Threads : ~Updating(t)) =>
        \E p \in Perms(Len(completed)) :
            ApplyAll(config0, [i \in 1..Len(completed) |-> completed[p[i]]]) = config

\* two updates of different fields have both returned, the first of them
\* while the other was waiting for the lock, and both fields are in memory
C7_Witness ==
    /\ \A t \in Threads : pc[t] = "idle"
    /\ Len(completed) = 2
    /\ completed[1].contended
    /\ SetsField(completed[1].args, "grammar") /\ ~SetsField(completed[1].args, "url")
    /\ SetsField(completed[2].args, "url") /\ ~SetsField(completed[2].args, "grammar")
    /\ config.grammar_model = <<"m">>
    /\ config.ollama_base_url = <<"h">>

\* C8: the RuntimeConfig a get builds and returns is one of the values the
\* config has held, whole, and the name and endpoint of a resolved
\* ModelConfig are those of one such value.
C8_ReadsSeeOneVersion ==
    \A t \in Threads :
        /\ pc[t] = "g_built" => got[t] \in versions
        /\ ret[t].kind = "config" => ret[t].value \in versions
        /\ ret[t].kind = "model" =>
              \E v \in versions :
                  /\ ret[t].value.name = v.general_model
                  /\ ret[t].value.endpoint = v.ollama_base_url \o API_CHAT

\* a get has read an updated config while another thread's update waits for
\* the lock the get holds
C8_Witness ==
    \E t, o \in Threads :
        /\ pc[t] = "g_built"
        /\ lock = t
        /\ pc[o] = "u_wait"
        /\ got[t] # config0
        /\ Cardinality(versions) > 1

\* C9: whenever no update holds the lock the durable record holds exactly the
\* config in memory, and an update about to return has written the value it
\* installed.
C9_RecordMirrorsMemory ==
    /\ (\A t \in Threads : ~Updating(t)) => file = FullFile(config)
    /\ \A t \in Threads :
          pc[t] = "u_assigned" => (file = FullFile(updated[t]) /\ config = updated[t])

\* C10: at every instant the durable record is a complete config: the value
\* from before the update in progress or the value that update writes.
C10_RecordAlwaysComplete ==
    /\ file.kind = "full"
    /\ file.data \in versions \cup {updated[t] : t \in {u \in Threads : Updating(u)}}

\* C28: after an update whose write failed, the call has raised, the config
\* in memory is the one from before the update and the lock is free; a get
\* that follows returns that config; an update that follows finds the lock
\* free and, when it returns, the config in memory and in the record is the
\* merge of its arguments into the config from before.
C28_FailedWriteLeavesConfig ==
    \A t \in Threads :
        /\ (pc[t] = "idle" /\ hist[t].op = "failed") =>
              /\ ret[t].kind = "raised"
              /\ config = hist[t].pre
              /\ lock = 0
        /\ (pc[t] = "idle" /\ hist[t].op = "failed_get") =>
              /\ ret[t] = [kind |-> "config", value |-> hist[t].pre]
              /\ config = hist[t].pre
              /\ lock = 0
        /\ (pc[t] = "u_wait" /\ hist[t].op = "retry") => LockFree
        /\ (pc[t] = "idle" /\ hist[t].op = "retried") =>
              /\ config = Merge(hist[t].pre, hist[t].args)
              /\ ret[t] = [kind |-> "config", value |-> config]
              /\ file = FullFile(config)
              /\ lock = 0

\* an update that followed a failed one has returned and changed the config
C28_Witness ==
    /\ pc[1] = "idle"
    /\ hist[1].op = "retried"
    /\ config # hist[1].pre
    /\ config = ret[1].value

\* a get has returned after an update whose write failed with the record
\* already truncated
C28_GetAfterFailure ==
    /\ pc[1] = "idle"
    /\ hist[1].op = "failed_get"
    /\ file = TornFile

\* the store was constructed where there was no record, and has not been
\* called yet
FreshOnEmptyPath == written /\ \A t \in Threads : pc[t] = "idle" /\ ret[t] = NoRet

\* C29: a store constructed on the path of an earlier store whose last
\* update returned gives, from get(), the config that update returned; a
\* store constructed where there was no record has written the defaults to
\* the path and holds them.
C29_ReloadRoundTrip ==
    /\ \A t \in Threads :
          (pc[t] = "idle" /\ hist[t].op = "reloaded_get") =>
              ret[t] = [kind |-> "config", value |-> hist[t].ret]
    /\ FreshOnEmptyPath =>
          /\ file = FullFile(DEFAULT_RUNTIME_CONFIG)
          /\ config = DEFAULT_RUNTIME_CONFIG

------------------------------------------------------------------------------
(* Claims about the service calls *)

\* C11: a thread whose network call (model invocation or model listing) is in
\* flight holds no store lock and stands in no store call, so the lock is
\* free or held by a thread inside its own get or update.
C11_NoLockInFlight ==
    \A t \in Threads :
        InFlight(t) =>
            /\ lock # t
            /\ pc[t] = "idle"
            /\ lock # 0 => ~InFlight(lock)

\* while the server's request is pending, every update issued since the
\* request began has returned and its value is in memory
C11_Witness ==
    /\ InFlight(Server)
    /\ started > svc[Server].mark
    /\ Len(completed) = started
    /\ \A t \in Threads : pc[t] = "idle"
    /\ lock = 0
    /\ config # config0

\* C12: the request of an edit or an analysis carries the model name and the
\* endpoint of a config the store held while that call resolved its
\* ModelConfig; a call begun after an update returned, with no update since,
\* carries the updated values.
C12_ResolvedAfresh ==
    \A t \in Threads :
        (InFlight(t) /\ svc[t].kind \in {"edit", "analyze"}) =>
            \E v \in svc[t].window :
                /\ svc[t].request.model = ModelConfig(v, svc[t].key).name
                /\ svc[t].request.url = v.ollama_base_url \o API_CHAT

\* the server's first request carried the defaults; its second call began
\* after the update had been installed and carries the updated values
C12_Witness ==
    /\ InFlight(Server)
    /\ svc[Server].kind = "edit"
    /\ svc[Server].n = 2
    /\ svc[Server].prev.url = DEFAULT_RUNTIME_CONFIG.ollama_base_url \o API_CHAT
    /\ svc[Server].window = {config}
    /\ config # config0
    /\ svc[Server].request.url = <<"h", "2">> \o API_CHAT
    /\ svc[Server].request.model \in {<<"m", "2">>, <<"g", "2">>}

\* C18: when the request of a model invocation ends in a connection error, a
\* timeout or a non-2xx status, generate raises ModelClientError with that
\* exception as its cause, and nothing else comes back from it; an edit lets
\* that error through to its caller.
C18_TransportErrorsTyped ==
    \A t \in Threads :
        (svc[t].stage = "done" /\ svc[t].kind \in {"edit", "analyze"}
            /\ svc[t].outcome \in HTTPErrors) =>
            /\ svc[t].generated = [type |-> "ModelClientError", cause |-> svc[t].outcome]
            /\ svc[t].kind = "edit" => svc[t].result = svc[t].generated

\* an edit whose request timed out has ended
C18_Witness ==
    /\ svc[Server].stage = "done"
    /\ svc[Server].kind = "edit"
    /\ svc[Server].outcome = "TimeoutException"
    /\ svc[Server].result.type = "ModelClientError"

\* C19: a model invocation makes exactly one request: never more than one,
\* one while it is pending, and one when the invocation has ended, whether
\* the request failed or succeeded.
C19_OneRequest ==
    \A t \in Threads :
        /\ svc[t].requests <= 1
        /\ InFlight(t) => svc[t].requests = 1
        /\ (svc[t].stage = "done" /\ svc[t].outcome # "none") =>
              /\ svc[t].requests = 1
              /\ svc[t].result.type # "none"

\* an edit has ended after its one request failed
C19_Witness ==
    /\ svc[Server].stage = "done"
    /\ svc[Server].kind = "edit"
    /\ svc[Server].outcome = "ConnectError"
    /\ svc[Server].requests = 1

\* C20: an edit with mode tone and no tone is never in flight, and ends with
\* a ValueError and no request made on its behalf.
C20_ToneValidatedBeforeNetwork ==
    \A t \in Threads :
        (svc[t].kind = "edit" /\ svc[t].mode = "tone" /\ svc[t].tone = NoTone) =>
            /\ ~InFlight(t)
            /\ svc[t].requests = 0
            /\ svc[t].stage = "done" =>
                  svc[t].result = [type |-> "ValueError", cause |-> "none"]

\* an edit with mode tone and no tone has ended, after its ModelConfig was
\* resolved
C20_Witness ==
    /\ svc[Server].stage = "done"
    /\ svc[Server].kind = "edit"
    /\ svc[Server].mode = "tone"
    /\ svc[Server].tone = NoTone
    /\ svc[Server].result.type = "ValueError"
    /\ ret[Server].kind = "model"

\* C21: an edit with mode proofread resolves the grammar model, one with mode
\* rewrite, tone or technical the general model; the edit with mode proofread
\* makes exactly one request, which goes to /api/chat under the base URL of a
\* config the store held while the edit resolved its model, names that
\* config's grammar model and carries no tools.
C21_ProofreadToGrammar ==
    \A t \in Threads :
        svc[t].kind = "edit" =>
            /\ svc[t].mode = "proofread" => svc[t].key = "grammar"
            /\ svc[t].mode \in {"rewrite", "tone", "technical"} => svc[t].key = "general"
            /\ (svc[t].mode = "proofread" /\ InFlight(t)) =>
                  /\ svc[t].requests = 1
                  /\ ~svc[t].request.tools
                  /\ \E v \in svc[t].window :
                        /\ svc[t].request.model = v.grammar_model
                        /\ svc[t].request.url = v.ollama_base_url \o API_CHAT
            /\ (svc[t].mode = "proofread" /\ svc[t].stage = "done") =>
                  /\ svc[t].requests = 1
                  /\ ~svc[t].request.tools

\* a proofread edit begun after an update was installed has its request
\* pending, addressed to the updated grammar model
C21_Witness ==
    /\ InFlight(Server)
    /\ svc[Server].kind = "edit"
    /\ svc[Server].mode = "proofread"
    /\ svc[Server].window = {config}
    /\ config # config0
    /\ svc[Server].request.model = <<"m", "2">>
    /\ svc[Server].request.url = <<"h", "2">> \o API_CHAT
    /\ svc[Server].requests = 1

\* C22: an analysis whose model call ended in a transport error or a
\* malformed response ends with the error generate raised, and not with an
\* AnalysisResponse.
C22_AnalysisErrorsPropagate ==
    \A t \in Threads :
        (svc[t].kind = "analyze" /\ svc[t].stage = "done"
            /\ svc[t].generated.type = "ModelClientError") =>
            /\ svc[t].result = svc[t].generated
            /\ svc[t].result.type # "AnalysisResponse"

------------------------------------------------------------------------------
(* Claims about get_model_config and get_runtime_config *)

\* C13: get_model_config("grammar") and get_model_config("analysis") give
\* temperature 0.1, max_tokens 512, top_p 0.95 (in hundredths: 10 and 95) and
\* the current grammar model; get_model_config("general") gives 0.5, 768, 0.9
\* and the current general model; for each the endpoint is the current base
\* URL followed by /api/chat and the api_type is ollama.
C13_ResolveForTask ==
    \A t \in Threads :
        ret[t].kind = "model" =>
            LET m == ret[t].value
            IN /\ ret[t].key \in {"grammar", "analysis"} =>
                     /\ m.temperature = 10 /\ m.max_tokens = 512 /\ m.top_p = 95
                     /\ m.name = config.grammar_model
               /\ ret[t].key = "general" =>
                     /\ m.temperature = 50 /\ m.max_tokens = 768 /\ m.top_p = 90
                     /\ m.name = config.general_model
               /\ m.endpoint =
                     config.ollama_base_url \o <<"/", "a", "p", "i", "/", "c", "h", "a", "t">>
               /\ m.api_type = "ollama"

\* the ModelConfig for analysis was resolved after an update that changed the
\* base URL and the grammar model
C13_Witness ==
    /\ ret[1].kind = "model"
    /\ ret[1].key = "analysis"
    /\ config.ollama_base_url # config0.ollama_base_url
    /\ config.grammar_model # config0.grammar_model
    /\ ret[1].value.name = config.grammar_model

\* C14: the values get_runtime_config returns with no update call between
\* them are equal, also when the caller wrote to a returned value in between
\* and also to the value the last update returned; a ModelConfig resolved
\* then is built from that same value.
C14_GetHandsOutCopy ==
    /\ \A i, j \in 1..Len(gets.vals) : gets.vals[i] = gets.vals[j]
    /\ \A t \in Threads :
          (ret[t].kind = "model" /\ gets.vals # <<>>) =>
              ret[t].value = ModelConfig(gets.vals[1], ret[t].key)

\* a get has returned after the caller wrote to the value an earlier get or
\* update had returned
C14_Witness ==
    /\ Len(gets.vals) = 2
    /\ gets.dirty /\ gets.checked
    /\ pc[1] = "idle"
    /\ ret[1].kind = "config"
    /\ ret[1].value = config

------------------------------------------------------------------------------
(* Claims about the client *)

Built == cli.op = "build"
ParsedAs(api_type) == cli.op = "parse" /\ cli.config.api_type = api_type

\* C15: the body built for api_type ollama has exactly the keys model,
\* messages, stream (false) and options (temperature, num_predict =
\* max_tokens, top_p), the one for the other api_type exactly model, messages,
\* temperature, max_tokens, top_p; for both, the key tools is there exactly
\* when tools (a non-empty list) were supplied, and messages and tools are the
\* ones passed in, in their order.
C15_PayloadShape ==
    Built =>
        LET c == cli.config
            out == cli.out
            supplied == cli.tools.some /\ cli.tools.val # <<>>
            toolsKey == IF supplied THEN {"tools"} ELSE {}
        IN /\ c.api_type = "ollama" =>
                 /\ DOMAIN out = {"model", "messages", "stream", "options"} \cup toolsKey
                 /\ out.stream = FALSE
                 /\ DOMAIN out.options = {"temperature", "num_predict", "top_p"}
                 /\ out.options.temperature = c.temperature
                 /\ out.options.num_predict = c.max_tokens
                 /\ out.options.top_p = c.top_p
           /\ c.api_type # "ollama" =>
                 /\ DOMAIN out =
                       {"model", "messages", "temperature", "max_tokens", "top_p"}
                           \cup toolsKey
                 /\ out.temperature = c.temperature
                 /\ out.max_tokens = c.max_tokens
                 /\ out.top_p = c.top_p
           /\ out.model = c.name
           /\ out.messages = cli.messages
           /\ supplied => out.tools = cli.tools.val

\* a body for ollama was built from two different messages and two different
\* tools
C15_Witness ==
    /\ Built
    /\ cli.config.api_type = "ollama"
    /\ Len(cli.messages) = 2 /\ cli.messages[1] # cli.messages[2]
    /\ cli.tools.some /\ Len(cli.tools.val) = 2
    /\ cli.tools.val[1] # cli.tools.val[2]
    /\ "tools" \in DOMAIN cli.out

\* the response body lacks a field its protocol requires
MissingRequired ==
    \/ /\ ParsedAs("ollama")
       /\ cli.body.message.kind = "absent"
    \/ /\ ParsedAs("openai")
       /\ \/ cli.body.choices.kind = "absent"
          \/ /\ cli.body.choices.kind = "list"
             /\ cli.body.choices.val # <<>>
             /\ cli.body.choices.val[1].message.kind = "absent"

\* C16: parsing a body that lacks the top-level message (ollama), or choices
\* or the message of choices[0] (openai), raises ModelClientError and nothing
\* else, and returns no result.
C16_MalformedIsTyped ==
    MissingRequired => (cli.out.kind = "raised" /\ cli.out.type = "ModelClientError")

\* the text is a JSON object
JsonParses(text) == text = <<"{", "}">>

\* the tool calls of the body's message that name a function and whose
\* arguments are a mapping or a string that parses
RECURSIVE Decodable(_, _)
Decodable(raw, i) ==
    IF i > Len(raw) THEN 0
    ELSE Decodable(raw, i + 1) +
         (IF /\ raw[i].function.kind = "dict"
             /\ raw[i].function.val # NoFunction
             /\ LET a == raw[i].function.val.arguments
                IN a.kind = "str" => JsonParses(a.val)
          THEN 1 ELSE 0)

\* C17: in a result parsed from an openai body every tool call has a mapping
\* as its arguments: string arguments were decoded, and a call whose string
\* does not parse was dropped while the others were kept.
C17_ArgumentsDecoded ==
    (ParsedAs("openai") /\ cli.out.kind = "returned") =>
        LET raw == cli.body.choices.val[1].message.val.tool_calls
            calls == IF cli.out.tool_calls.some THEN cli.out.tool_calls.val ELSE <<>>
        IN /\ \A i \in 1..Len(calls) : calls[i].arguments.kind = "dict"
           /\ raw.kind = "list" => Len(calls) = Decodable(raw.val, 1)

\* the message of the body that was parsed
BodyMessage ==
    IF cli.config.api_type = "ollama" THEN cli.body.message
    ELSE cli.body.choices.val[1].message

\* the body holds a message with a content (for openai, possibly null) and
\* with no tool calls or with tool calls that each name a function and give
\* it a mapping as arguments
Structured ==
    /\ cli.op = "parse"
    /\ cli.config.api_type # "ollama" =>
          (cli.body.choices.kind = "list" /\ cli.body.choices.val # <<>>)
    /\ BodyMessage.kind = "dict"
    /\ BodyMessage.val.content.kind \in
          (IF cli.config.api_type = "ollama" THEN {"str"} ELSE {"str", "null"})
    /\ BodyMessage.val.tool_calls.kind \in {"absent", "list"}
    /\ \A i \in 1..Len(BodyMessage.val.tool_calls.val) :
          LET f == BodyMessage.val.tool_calls.val[i].function
          IN /\ f.kind = "dict"
             /\ f.val.name.kind = "str"
             /\ f.val.arguments.kind = "dict"

\* C26: parsing a body of either kind whose message holds a content c and
\* tool calls f1..fn with a mapping as arguments returns a result whose
\* content is c without its surrounding whitespace (ollama) or c with null
\* turned into "" (openai), and whose tool calls are the n pairs of name and
\* arguments in the order of the body; with no tool calls in the body the
\* result has none.
C26_ParseRecovers ==
    Structured =>
        LET c == BodyMessage.val.content
            raw == BodyMessage.val.tool_calls.val
        IN /\ cli.out.kind = "returned"
           /\ cli.out.content =
                 (IF cli.config.api_type = "ollama" THEN strip(c.val)
                  ELSE IF c.kind = "null" THEN <<>> ELSE c.val)
           /\ IF raw = <<>> THEN ~cli.out.tool_calls.some
              ELSE /\ cli.out.tool_calls.some
                   /\ Len(cli.out.tool_calls.val) = Len(raw)
                   /\ \A i \in 1..Len(raw) :
                         /\ cli.out.tool_calls.val[i].name = raw[i].function.val.name
                         /\ cli.out.tool_calls.val[i].arguments
                                = raw[i].function.val.arguments

\* an ollama body with a blank-padded content and two different tool calls
\* was parsed
C26_Witness ==
    /\ Structured
    /\ cli.config.api_type = "ollama"
    /\ BodyMessage.val.content = Str(<<" ", "c", " ">>)
    /\ cli.out.content = <<"c">>
    /\ Len(BodyMessage.val.tool_calls.val) = 2
    /\ BodyMessage.val.tool_calls.val[1] # BodyMessage.val.tool_calls.val[2]
    /\ cli.out.tool_calls.some

====
